---------------------------- MODULE Spec2Model ----------------------------
(***************************************************************************)
(* Model of src/main.py, the file sharing service: the upload pipeline     *)
(* (validate_file, _create_safe_filename, save_file, upload_files), the    *)
(* background PNG -> JPEG conversion, DELETE /files/{name}, GET /download   *)
(* and GET /files, all acting on the one shared upload directory.          *)
(*                                                                         *)
(* A file name is a sequence of one-character strings.  The directory is   *)
(* the function fs from the names present to their content.  Code that     *)
(* runs on the asyncio event loop between two awaits is one action; every  *)
(* piece of work handed to the thread pool (aiofiles open and write, the   *)
(* image conversion, the zip builder) is split at each point where the     *)
(* directory is read or changed.                                           *)
(***************************************************************************)
EXTENDS Naturals, Sequences, FiniteSets, TLC

\* ------------------------------------------------------------ bounds
\* Upload requests received over a run (Spec).
MaxReq == 2
\* File parts received over a run in the batches that are accepted (Spec).
MaxFiles == 2
\* The same for a run of successive upload requests (SpecSeq).
MaxReqSeq == 3
MaxFilesSeq == 3
\* The same for a run with deletes (SpecDel).
MaxReqDel == 1
MaxFilesDel == 2
\* The same for a run with deletes and a download (SpecAll).
MaxReqAll == 1
MaxFilesAll == 2
\* I/O errors injected into save_file over a run.
MaxFaults == 1
\* DELETE requests received over a run (SpecDel, SpecAll, SpecList).
MaxDel == 1
\* GET /download requests received over a run (SpecAll, SpecList).
MaxDl == 1
\* Upload requests and parts of a run about extensions (SpecCase).
MaxReqCase == 1
MaxFilesCase == 2
\* Upload requests and parts of a run under fair scheduling (SpecLive).
MaxReqLive == 2
MaxFilesLive == 2
\* Requests of a run with deletes, a download and a listing (SpecList).
MaxReqList == 1
MaxFilesList == 1
\* GET /files requests received over a run (SpecList, SpecFiles).
MaxLs == 1
\* Files in the directory of a run of listings only (SpecFiles).
MaxDirFiles == 4

\* ------------------------------------------------- program constants
\* main.py:24 sets 100 MiB; sizes are scaled to the unit "one third of it
\* rounded up", so that 2 is the largest accepted size and 3 is too large.
MAX_FILE_SIZE == 2
\* main.py:25 sets 100; scaled so that a batch of 3 parts is over the limit.
MAX_FILES_PER_REQUEST == 2
\* main.py:116, safe_name[:50]; scaled to 4 characters.
STEM_LIMIT == 4

\* --------------------------------------------------------- characters
LowerSeq ==
    << "a","b","c","d","e","f","g","h","i","j","k","l","m",
       "n","o","p","q","r","s","t","u","v","w","x","y","z" >>
UpperSeq ==
    << "A","B","C","D","E","F","G","H","I","J","K","L","M",
       "N","O","P","Q","R","S","T","U","V","W","X","Y","Z" >>
DigitSeq == << "0","1","2","3","4","5","6","7","8","9" >>

SeqRange(s) == { s[i] : i \in 1..Len(s) }

\* str.isalnum() of one character
IsAlnum(c) == c \in SeqRange(LowerSeq) \cup SeqRange(UpperSeq) \cup SeqRange(DigitSeq)

\* str.lower() of one character
LowerChar(c) ==
    IF c \in SeqRange(UpperSeq)
    THEN LowerSeq[CHOOSE i \in 1..26 : UpperSeq[i] = c]
    ELSE c

\* str.lower()
Lower(s) == [ i \in 1..Len(s) |-> LowerChar(s[i]) ]

\* str(n) for a natural number n
RECURSIVE Decimal(_)
Decimal(n) ==
    IF n < 10 THEN << DigitSeq[n + 1] >>
    ELSE Decimal(n \div 10) \o << DigitSeq[(n % 10) + 1] >>

\* s.rfind(c): the last position of c in s, 0 when there is none (1-based)
RFind(s, c) ==
    LET hits == { i \in 1..Len(s) : s[i] = c }
    IN  IF hits = {} THEN 0 ELSE CHOOSE i \in hits : \A j \in hits : j <= i

\* s.rstrip(): trailing blanks removed
RECURSIVE RStrip(_)
RStrip(s) ==
    IF s # << >> /\ s[Len(s)] = " " THEN RStrip(SubSeq(s, 1, Len(s) - 1)) ELSE s

\* "".join(c for c in s if keep(c)) for the filter of _create_safe_filename
KeepChar(c) == IsAlnum(c) \/ c \in {" ", "-", "_"}
RECURSIVE Sanitise(_)
Sanitise(s) ==
    IF s = << >> THEN << >>
    ELSE (IF KeepChar(Head(s)) THEN << Head(s) >> ELSE << >>) \o Sanitise(Tail(s))

\* s[:n]
Truncate(s, n) == IF Len(s) <= n THEN s ELSE SubSeq(s, 1, n)

\* -------------------------------------------------------------- paths
\* Path(filename).name: the final component
PathName(f) == SubSeq(f, RFind(f, "/") + 1, Len(f))

\* The position of the dot that starts the suffix, 0 when the name has none:
\* a leading dot and a trailing dot start no suffix.
SuffixDot(f) ==
    LET n == PathName(f)
        i == RFind(n, ".")
    IN  IF 1 < i /\ i < Len(n) THEN i ELSE 0

\* Path(filename).suffix
PathSuffix(f) ==
    LET n == PathName(f)
    IN  IF SuffixDot(f) = 0 THEN << >> ELSE SubSeq(n, SuffixDot(f), Len(n))

\* Path(filename).stem
PathStem(f) ==
    LET n == PathName(f)
    IN  IF SuffixDot(f) = 0 THEN n ELSE SubSeq(n, 1, SuffixDot(f) - 1)

\* file_path.with_suffix(suffix), for a stored name
WithSuffix(n, suffix) == PathStem(n) \o suffix

DotPng  == << ".", "p", "n", "g" >>
DotJpg  == << ".", "j", "p", "g" >>
DotJpeg == << ".", "j", "p", "e", "g" >>
DotGif  == << ".", "g", "i", "f" >>
DotBmp  == << ".", "b", "m", "p" >>
DotTiff == << ".", "t", "i", "f", "f" >>
DotWebp == << ".", "w", "e", "b", "p" >>
DotPdf  == << ".", "p", "d", "f" >>
DotTxt  == << ".", "t", "x", "t" >>
DotDocx == << ".", "d", "o", "c", "x" >>
DotXlsx == << ".", "x", "l", "s", "x" >>
DotZip  == << ".", "z", "i", "p" >>
DotMp4  == << ".", "m", "p", "4" >>
DotMp3  == << ".", "m", "p", "3" >>

SUPPORTED_IMAGE_FORMATS == { DotPng, DotJpg, DotJpeg, DotGif, DotBmp, DotTiff, DotWebp }
SUPPORTED_FORMATS ==
    SUPPORTED_IMAGE_FORMATS \cup { DotPdf, DotTxt, DotDocx, DotXlsx, DotZip, DotMp4, DotMp3 }


\* ------------------------------------------------------------ inputs
NamePng  == << "a", ".", "p", "n", "g" >>
NameJpg  == << "a", ".", "j", "p", "g" >>
NameExe  == << "v", ".", "e", "x", "e" >>
NameNone == << >>

\* The file names a client sends; NameNone is a part whose filename is empty.
RawNames == { NamePng, NameJpg, NameExe, NameNone }
\* The declared sizes a client sends: the largest accepted one and the next.
Sizes == { MAX_FILE_SIZE, MAX_FILE_SIZE + 1 }
\* An UploadFile: its filename and its size.
FileInputs ==
    { f \in [ filename : RawNames, size : Sizes ] :
        f.size = MAX_FILE_SIZE \/ f.filename \in { NamePng, NameExe } }

\* Names whose extension differs from a.png in case or in kind
NameUpper == << "b", ".", "P", "N", "G" >>
NameGif   == << "c", ".", "g", "i", "f" >>
\* The parts a client sends in a run under fair scheduling (SpecLive)
LiveInputs == { [ filename |-> NamePng, size |-> MAX_FILE_SIZE ] }
\* The parts a client sends in a run with a listing (SpecList)
ListInputs ==
    { [ filename |-> n, size |-> MAX_FILE_SIZE ] : n \in { NamePng, NameJpg } }
\* The parts a client sends in a run about extensions (SpecCase)
CaseInputs ==
    { [ filename |-> n, size |-> MAX_FILE_SIZE ] : n \in { NamePng, NameUpper, NameGif, NameExe } }

\* ----------------------------------------------------------- contents
\* What a file holds: nothing (created or truncated by open(..., 'wb')), the
\* bytes of the k-th part of upload request r, or the JPEG made from them.
Empty == [ kind |-> "empty", r |-> 0, k |-> 0 ]
Raw(r, k) == [ kind |-> "raw", r |-> r, k |-> k ]
Jpeg(c) == [ kind |-> "jpeg", r |-> c.r, k |-> c.k ]

\* None, as the third component of save_file's result
NoPath == << >>

\* --------------------------------------------------------------- state
VARIABLES
    fs,        \* the upload directory: name -> content
    files,     \* files[r]: the parts of upload request r, in input order
    status,    \* status[r]: "saving", "done" (200) or "rejected" (400)
    tasks,     \* tasks[r]: the save_file coroutines of request r, as gathered
    results,   \* results[r]: the dict upload_files returns
    bg,        \* bg[r]: the background conversions request r scheduled
    faults,    \* I/O errors injected so far
    cap,       \* the requests and parts still to be received in this run
    del,       \* the DELETE requests: the one in progress, and the answers
    dl,        \* the GET /download request
    ls,        \* the GET /files request
    call       \* a call of one of the static methods, with its result

vars == << fs, files, status, tasks, results, bg, faults, cap, del, dl, ls, call >>

Reqs == 1..Len(files)

\* ----------------------------------------------------------- validate
MsgSize  == "File size exceeds maximum allowed size"
MsgType  == "File type not supported"
MsgValid == "Valid"
MsgSaved == "File saved successfully"
MsgIO    == "Error saving file"

\* validate_file without its size check
validate_file_NoSizeCheck(filename, size) ==
    IF Lower(PathSuffix(filename)) \notin SUPPORTED_FORMATS
    THEN [ ok |-> FALSE, msg |-> MsgType ]
    ELSE [ ok |-> TRUE, msg |-> MsgValid ]

\* validate_file with its two checks in the other order
validate_file_TypeFirst(filename, size) ==
    IF Lower(PathSuffix(filename)) \notin SUPPORTED_FORMATS
    THEN [ ok |-> FALSE, msg |-> MsgType ]
    ELSE IF size > MAX_FILE_SIZE
    THEN [ ok |-> FALSE, msg |-> MsgSize ]
    ELSE [ ok |-> TRUE, msg |-> MsgValid ]

\* FileProcessor.validate_file: (is_valid, message)
validate_file(filename, size) ==
    IF size > MAX_FILE_SIZE
    THEN [ ok |-> FALSE, msg |-> MsgSize ]
    ELSE IF Lower(PathSuffix(filename)) \notin SUPPORTED_FORMATS
    THEN [ ok |-> FALSE, msg |-> MsgType ]
    ELSE [ ok |-> TRUE, msg |-> MsgValid ]

\* ------------------------------------------------------- safe filename
\* new_path.exists() for UPLOAD_DIR / name: the empty name is the directory
\* itself, which exists.
Exists(name, dir) == name = << >> \/ name \in dir

\* safe_name of _create_safe_filename
SafeBase(filename) == Truncate(RStrip(Sanitise(PathStem(filename))), STEM_LIMIT)

\* The while loop of _create_safe_filename from the candidate with counter n.
\* It ends: dir is finite and the candidates are pairwise distinct.
RECURSIVE NextFree(_, _, _, _)
NextFree(base, suffix, n, dir) ==
    LET cand == base \o << "_" >> \o Decimal(n) \o suffix
    IN  IF Exists(cand, dir) THEN NextFree(base, suffix, n + 1, dir) ELSE cand

\* _create_safe_filename with an if for its while: one retry only
create_safe_filename_Once(filename, dir) ==
    IF Exists(SafeBase(filename) \o PathSuffix(filename), dir)
    THEN SafeBase(filename) \o << "_", "1" >> \o PathSuffix(filename)
    ELSE SafeBase(filename) \o PathSuffix(filename)

\* FileManager._create_safe_filename against the directory listing dir
create_safe_filename(filename, dir) ==
    LET base   == SafeBase(filename)
        suffix == PathSuffix(filename)
    IN  IF Exists(base \o suffix, dir) THEN NextFree(base, suffix, 1, dir)
        ELSE base \o suffix


\* ---------------------------------------------------------- directory
\* The directory after open(name, 'wb') and after a write of content c
Put(dir, name, c) == [ n \in DOMAIN dir \cup { name } |-> IF n = name THEN c ELSE dir[n] ]
\* The directory after unlink(name)
Remove(dir, name) == [ n \in DOMAIN dir \ { name } |-> dir[n] ]

\* An unlink of name detaches the name from every handle open on it: what is
\* written through such a handle afterwards reaches no file of the directory.
Detach(ts, name) ==
    [ r \in DOMAIN ts |->
        [ k \in DOMAIN ts[r] |->
            IF ts[r][k].pc = "writing" /\ ts[r][k].name = name
            THEN [ ts[r][k] EXCEPT !.live = FALSE ]
            ELSE ts[r][k] ] ]

\* Code of the event loop runs only while no other handler is between two of
\* its own statements: delete_file and list_files have no await, so from the
\* exists() to the unlink() of the one, and during the directory walk of the
\* other, only the threads of the pool can act.
LoopFree == del.pc = "idle" /\ ls.pc = "idle"

\* -------------------------------------------------------- upload_files
\* The check with >= for >: a batch of exactly the limit is rejected.
TooManyOffByOne(batch) == Len(batch) >= MAX_FILES_PER_REQUEST

\* main.py:425, the batch-size check
TooMany(batch) == Len(batch) > MAX_FILES_PER_REQUEST

\* main.py:435-437: the indices of the parts a save_file task is made for
Gathered(batch) == SelectSeq([ i \in 1..Len(batch) |-> i ], LAMBDA i : batch[i].filename # << >>)

NewTask(i) ==
    [ fi |-> i, pc |-> "new", name |-> NoPath, ok |-> FALSE, msg |-> "",
      rpath |-> NoPath, live |-> FALSE ]

NoResult == [ successful |-> 0, failed |-> 0, errors |-> << >> ]

\* POST /upload is received: lines 425-437, up to the await of the gather.
UploadStart(batch) ==
    /\ LoopFree
    /\ cap.reqs > 0
    /\ TooMany(batch) \/ Len(batch) <= cap.parts
    /\ \A i \in 1..Len(batch) : batch[i] \in cap.inputs
    /\ cap' = [ cap EXCEPT !.reqs = @ - 1,
                           !.parts = IF TooMany(batch) THEN @ ELSE @ - Len(batch) ]
    /\ files' = Append(files, batch)
    /\ results' = Append(results, NoResult)
    /\ bg' = Append(bg, << >>)
    /\ IF TooMany(batch)
       THEN /\ status' = Append(status, "rejected")
            /\ tasks' = Append(tasks, << >>)
       ELSE /\ status' = Append(status, "saving")
            /\ tasks' = Append(tasks, [ j \in 1..Len(Gathered(batch)) |-> NewTask(Gathered(batch)[j]) ])
    /\ UNCHANGED << fs, faults, del, dl, ls, call >>

\* ------------------------------------------------------------ save_file
\* save_file from its start to its first await (lines 89-100): validation,
\* the choice of the name, and the open handed to the thread pool.  The
\* tasks of one gather take their first step in the order they were given.
SaveName(r, k) ==
    LET t == tasks[r][k]
        f == files[r][t.fi]
        v == validate_file(f.filename, f.size)
    IN  /\ LoopFree
        /\ t.pc = "new"
        /\ \A j \in 1..(k - 1) : tasks[r][j].pc # "new"
        /\ tasks' = [ tasks EXCEPT ![r][k] =
                        IF ~v.ok
                        THEN [ t EXCEPT !.pc = "done", !.ok = FALSE, !.msg = v.msg ]
                        ELSE [ t EXCEPT !.pc = "opening",
                                        !.name = create_safe_filename(f.filename, DOMAIN fs) ] ]
        /\ UNCHANGED << fs, files, status, results, bg, faults, cap, del, dl, ls, call >>

\* The directory after the open of task t, and after the write of task t of
\* request r: through a handle whose name was unlinked nothing is reached.
AfterOpen(t) == Put(fs, t.name, Empty)
AfterWrite(r, t) == IF t.live THEN Put(fs, t.name, Raw(r, t.fi)) ELSE fs

\* aiofiles.open(file_path, 'wb') in the pool (line 100): the file is created,
\* or truncated when the name is there already.
SaveOpen(r, k) ==
    LET t == tasks[r][k]
    IN  /\ t.pc = "opening"
        /\ fs' = AfterOpen(t)
        /\ tasks' = [ tasks EXCEPT ![r][k] = [ t EXCEPT !.pc = "writing", !.live = TRUE ] ]
        /\ UNCHANGED << files, status, results, bg, faults, cap, del, dl, ls, call >>

\* The open raises (lines 100, 107-109): nothing is created.
SaveOpenFail(r, k) ==
    LET t == tasks[r][k]
    IN  /\ t.pc = "opening"
        /\ faults < MaxFaults
        /\ faults' = faults + 1
        /\ tasks' = [ tasks EXCEPT ![r][k] = [ t EXCEPT !.pc = "done", !.ok = FALSE, !.msg = MsgIO ] ]
        /\ UNCHANGED << fs, files, status, results, bg, cap, del, dl, ls, call >>

\* file.read(), f.write(content) and the close (lines 101-105).
SaveWrite(r, k) ==
    LET t == tasks[r][k]
    IN  /\ t.pc = "writing"
        /\ fs' = AfterWrite(r, t)
        /\ tasks' = [ tasks EXCEPT ![r][k] =
                        [ t EXCEPT !.pc = "done", !.ok = TRUE, !.msg = MsgSaved,
                                   !.rpath = t.name, !.live = FALSE ] ]
        /\ UNCHANGED << files, status, results, bg, faults, cap, del, dl, ls, call >>

\* The read or the write raises (lines 101-102, 107-109): the file stays as
\* the open left it.
SaveWriteFail(r, k) ==
    LET t == tasks[r][k]
    IN  /\ t.pc = "writing"
        /\ faults < MaxFaults
        /\ faults' = faults + 1
        /\ tasks' = [ tasks EXCEPT ![r][k] =
                        [ t EXCEPT !.pc = "done", !.ok = FALSE, !.msg = MsgIO, !.live = FALSE ] ]
        /\ UNCHANGED << fs, files, status, results, bg, cap, del, dl, ls, call >>


\* ------------------------------------------- upload_files, aggregation
\* asyncio.gather has returned: every task of the request has its result.
GatherDone(r) == \A k \in 1..Len(tasks[r]) : tasks[r][k].pc = "done"

\* files[i].filename of lines 446 and 456, i being the index of the result
\* in upload_results
ErrorFile(r, k) == files[r][k].filename

\* The loop of lines 443-456 over the first n results: the counters and the
\* error list.  save_file catches every Exception, so no result is one.
RECURSIVE Aggregate(_, _)
Aggregate(r, n) ==
    IF n = 0 THEN NoResult
    ELSE LET acc == Aggregate(r, n - 1)
             t   == tasks[r][n]
         IN  IF t.ok
             THEN [ acc EXCEPT !.successful = @ + 1 ]
             ELSE [ acc EXCEPT !.failed = @ + 1,
                               !.errors = Append(@, [ file |-> ErrorFile(r, n), msg |-> t.msg ]) ]

\* The conversion scheduled for every PNG name a save chose, saved or not
QualifiesUnsaved(t) == Lower(PathSuffix(t.name)) = DotPng

\* Line 452 without its lower(): only the extension .png as written qualifies
QualifiesCaseSensitive(t) == t.ok /\ t.rpath # NoPath /\ PathSuffix(t.rpath) = DotPng

\* Line 452: the result is handed to the background converter
Qualifies(t) == t.ok /\ t.rpath # NoPath /\ Lower(PathSuffix(t.rpath)) = DotPng

NewConv(r, k) == [ path |-> tasks[r][k].rpath, src |-> k, pc |-> "queued", out |-> "" ]

\* background_tasks after the loop: one conversion per qualifying result, in
\* the order of the results
Scheduled(r) ==
    LET ks == SelectSeq([ k \in 1..Len(tasks[r]) |-> k ], LAMBDA k : Qualifies(tasks[r][k]))
    IN  [ j \in 1..Len(ks) |-> NewConv(r, ks[j]) ]

\* UploadFinish with the conversions run in the foreground: no response
\* while a scheduled conversion has not ended
UploadFinishAfterConversions(r) ==
    /\ LoopFree
    /\ \A q \in Reqs : \A j \in 1..Len(bg[q]) : bg[q][j].pc = "done"
    /\ status[r] = "saving"
    /\ GatherDone(r)
    /\ results' = [ results EXCEPT ![r] = Aggregate(r, Len(tasks[r])) ]
    /\ bg' = [ bg EXCEPT ![r] = Scheduled(r) ]
    /\ status' = [ status EXCEPT ![r] = "done" ]
    /\ UNCHANGED << fs, files, tasks, faults, cap, del, dl, ls, call >>

\* Lines 440-458: the gather is over, the results are counted, the
\* conversions are scheduled and the response is returned.
UploadFinish(r) ==
    /\ LoopFree
    /\ status[r] = "saving"
    /\ GatherDone(r)
    /\ results' = [ results EXCEPT ![r] = Aggregate(r, Len(tasks[r])) ]
    /\ bg' = [ bg EXCEPT ![r] = Scheduled(r) ]
    /\ status' = [ status EXCEPT ![r] = "done" ]
    /\ UNCHANGED << fs, files, tasks, faults, cap, del, dl, ls, call >>

\* ------------------------------------------------- _convert_image_sync
\* target_path of line 51, target_format being 'JPEG'
TargetPath(path) == WithSuffix(path, DotJpg)

\* The background tasks of a response run one after the other.
ConvTurn(r, j) ==
    /\ status[r] = "done"
    /\ j \in 1..Len(bg[r])
    /\ \A i \in 1..(j - 1) : bg[r][i].pc = "done"

\* Image.open can read the file: it is there and holds uploaded bytes.
Readable(path) == path \in DOMAIN fs /\ fs[path].kind = "raw"

ConvEnd(r, j, out) == bg' = [ bg EXCEPT ![r][j] = [ @ EXCEPT !.pc = "done", !.out = out ] ]

IsImage(r, j) == Lower(PathSuffix(bg[r][j].path)) \in SUPPORTED_IMAGE_FORMATS

\* The conversion ends before it touched anything: the suffix is no image
\* suffix (line 48), or Image.open raises (line 54) because the file is
\* missing or is no image.
ConvOpenFail(r, j) ==
    /\ ConvTurn(r, j) /\ bg[r][j].pc = "queued"
    /\ ConvEnd(r, j, "failed")
    /\ UNCHANGED << fs, files, status, tasks, results, faults, cap, del, dl, ls, call >>

\* img.convert raises (lines 56-57).
ConvModeFail(r, j) ==
    /\ ConvTurn(r, j) /\ bg[r][j].pc = "queued" /\ IsImage(r, j)
    /\ Readable(bg[r][j].path)
    /\ ConvEnd(r, j, "failed")
    /\ UNCHANGED << fs, files, status, tasks, results, faults, cap, del, dl, ls, call >>

\* ConvSaveFail with the source unlinked although the save failed
ConvSaveFailUnlinks(r, j, keep) ==
    LET target == WithSuffix(bg[r][j].path, DotJpg)
    IN  /\ status[r] = "done" /\ \A i \in 1..(j - 1) : bg[r][i].pc = "done"
        /\ bg[r][j].pc = "queued"
        /\ bg[r][j].path \in DOMAIN fs /\ fs[bg[r][j].path].kind = "raw"
        /\ keep \/ target \notin DOMAIN fs
        /\ fs' = [ n \in (DOMAIN fs \cup (IF keep THEN { target } ELSE { })) \ { bg[r][j].path }
                    |-> IF n = target THEN Empty ELSE fs[n] ]
        /\ bg' = [ bg EXCEPT ![r][j] = [ @ EXCEPT !.pc = "done", !.out = "failed" ] ]
        /\ UNCHANGED << files, status, tasks, results, faults, cap, del, dl, ls, call >>

\* img.save raises (line 58) after it opened the target for writing: a
\* target that was there is left truncated; one that save created is left
\* empty or removed again, as the imaging library chooses (keep).
ConvSaveFail(r, j, keep) ==
    LET target == TargetPath(bg[r][j].path)
    IN  /\ ConvTurn(r, j) /\ bg[r][j].pc = "queued" /\ IsImage(r, j)
        /\ Readable(bg[r][j].path)
        /\ keep \/ target \notin DOMAIN fs
        /\ fs' = IF keep THEN Put(fs, target, Empty) ELSE fs
        /\ ConvEnd(r, j, "failed")
        /\ UNCHANGED << files, status, tasks, results, faults, cap, del, dl, ls, call >>

\* Lines 54-58 succeed: the target holds the JPEG of the source.
ConvSave(r, j) ==
    LET path   == bg[r][j].path
        target == TargetPath(path)
    IN  /\ ConvTurn(r, j) /\ bg[r][j].pc = "queued" /\ IsImage(r, j)
        /\ Readable(path)
        /\ fs' = Put(fs, target, Jpeg(fs[path]))
        /\ bg' = [ bg EXCEPT ![r][j] = [ @ EXCEPT !.pc = "saved" ] ]
        /\ UNCHANGED << files, status, tasks, results, faults, cap, del, dl, ls, call >>

\* Lines 61-65 and 66-68: the source is unlinked when the target is another
\* path; an unlink that raises is caught like every other failure.
ConvUnlink(r, j) ==
    LET path == bg[r][j].path
    IN  /\ ConvTurn(r, j) /\ bg[r][j].pc = "saved"
        /\ IF TargetPath(path) = path
           THEN /\ ConvEnd(r, j, "ok")
                /\ UNCHANGED << fs, tasks >>
           ELSE IF path \in DOMAIN fs
           THEN /\ fs' = Remove(fs, path)
                /\ tasks' = Detach(tasks, path)
                /\ ConvEnd(r, j, "ok")
           ELSE /\ ConvEnd(r, j, "failed")
                /\ UNCHANGED << fs, tasks >>
        /\ UNCHANGED << files, status, results, faults, cap, del, dl, ls, call >>


\* ---------------------------------------------------------- delete_file
\* The names a client asks to delete: a stored one, or a.png
DeleteNames == DOMAIN fs \cup { NamePng }

DelAnswer(name, code) ==
    [ del EXCEPT !.pc = "idle", !.left = @ - 1,
                 !.answers = Append(@, [ name |-> name, code |-> code ]) ]

\* Lines 490-492: the existence check, and the 404 when it fails.
DelCheck(name) ==
    /\ LoopFree
    /\ del.left > 0
    /\ del' = IF name \in DOMAIN fs
              THEN [ del EXCEPT !.pc = "checked", !.name = name ]
              ELSE DelAnswer(name, 404)
    /\ UNCHANGED << fs, files, status, tasks, results, bg, faults, cap, dl, ls, call >>

\* DelUnlink answering success without the unlink
DelUnlinkSkipped ==
    /\ del.pc = "checked"
    /\ del' = DelAnswer(del.name, 200)
    /\ UNCHANGED << fs, files, status, tasks, results, bg, faults, cap, dl, ls, call >>

\* Lines 494-498: the unlink, and the 500 when it raises.
DelUnlink ==
    /\ del.pc = "checked"
    /\ IF del.name \in DOMAIN fs
       THEN /\ fs' = Remove(fs, del.name)
            /\ tasks' = Detach(tasks, del.name)
            /\ del' = DelAnswer(del.name, 200)
       ELSE /\ del' = DelAnswer(del.name, 500)
            /\ UNCHANGED << fs, tasks >>
    /\ UNCHANGED << files, status, results, bg, faults, cap, dl, ls, call >>

\* --------------------------------------------------- download_all_files
NoFile == << "/" >>

\* GET /download is received (lines 473-474): create_zip goes to the pool.
\* snap is history: the directory as it is at this moment.
DlStart ==
    /\ LoopFree
    /\ dl.pc = "idle" /\ dl.left > 0
    /\ dl' = [ dl EXCEPT !.pc = "started", !.left = @ - 1, !.snap = fs ]
    /\ UNCHANGED << fs, files, status, tasks, results, bg, faults, cap, del, ls, call >>

\* UPLOAD_DIR.iterdir() (line 466): the names are listed at once.
DlList ==
    /\ dl.pc = "started"
    /\ dl' = [ dl EXCEPT !.pc = "listed", !.todo = DOMAIN fs ]
    /\ UNCHANGED << fs, files, status, tasks, results, bg, faults, cap, del, ls, call >>

\* file_path.is_file() (line 467) for the next listed name
DlCheck(name) ==
    /\ dl.pc = "listed" /\ name \in dl.todo
    /\ dl' = IF name \in DOMAIN fs
             THEN [ dl EXCEPT !.pc = "checked", !.cur = name ]
             ELSE [ dl EXCEPT !.todo = @ \ { name } ]
    /\ UNCHANGED << fs, files, status, tasks, results, bg, faults, cap, del, ls, call >>

\* zip_file.write(file_path, file_path.name) (line 468): the file is read as
\* it is now; when it is gone the write raises and the request fails.
DlWrite ==
    /\ dl.pc = "checked"
    /\ dl' = IF dl.cur \in DOMAIN fs
             THEN [ dl EXCEPT !.pc = "listed", !.todo = @ \ { dl.cur }, !.cur = NoFile,
                              !.zip = Put(@, dl.cur, fs[dl.cur]) ]
             ELSE [ dl EXCEPT !.pc = "failed", !.cur = NoFile ]
    /\ UNCHANGED << fs, files, status, tasks, results, bg, faults, cap, del, ls, call >>

\* Lines 469-480: the archive is complete and is returned.
DlFinish ==
    /\ LoopFree
    /\ dl.pc = "listed" /\ dl.todo = { }
    /\ dl' = [ dl EXCEPT !.pc = "done" ]
    /\ UNCHANGED << fs, files, status, tasks, results, bg, faults, cap, del, ls, call >>

\* ---------------------------------------------------- get_files_by_type
DocumentFormats == { DotPdf, DotTxt, DotDocx, DotXlsx }
MediaFormats == { DotMp4, DotMp3 }

\* Category without the lower() of line 139
CategoryCaseSensitive(name) ==
    IF PathSuffix(name) \in SUPPORTED_IMAGE_FORMATS THEN "images"
    ELSE IF PathSuffix(name) \in DocumentFormats THEN "documents"
    ELSE IF PathSuffix(name) \in MediaFormats THEN "media"
    ELSE "other"

\* Lines 139-147: the category of a file name
Category(name) ==
    LET suffix == Lower(PathSuffix(name))
    IN  IF suffix \in SUPPORTED_IMAGE_FORMATS THEN "images"
        ELSE IF suffix \in DocumentFormats THEN "documents"
        ELSE IF suffix \in MediaFormats THEN "media"
        ELSE "other"

\* files_by_type of lines 130-135
NoListing == [ images |-> << >>, documents |-> << >>, media |-> << >>, other |-> << >> ]

LsIdle(left) == [ pc |-> "idle", left |-> left, todo |-> { }, out |-> NoListing ]

\* GET /files is received; UPLOAD_DIR.iterdir() (line 137) lists the names.
LsList ==
    /\ LoopFree
    /\ ls.left > 0
    /\ ls' = [ pc |-> "walking", left |-> ls.left - 1, todo |-> DOMAIN fs, out |-> NoListing ]
    /\ UNCHANGED << fs, files, status, tasks, results, bg, faults, cap, del, dl, call >>

\* Lines 138-147 for the next listed name, in the order the system lists
\* them: is_file(), and the append to the list of its category.
LsCheck(name) ==
    /\ ls.pc = "walking" /\ name \in ls.todo
    /\ ls' = [ ls EXCEPT !.todo = @ \ { name },
                         !.out = IF name \in DOMAIN fs
                                 THEN [ @ EXCEPT ![Category(name)] = Append(@, name) ]
                                 ELSE @ ]
    /\ UNCHANGED << fs, files, status, tasks, results, bg, faults, cap, del, dl, call >>

\* Line 149 and line 485: the dict is returned; ls.out keeps the answer.
LsFinish ==
    /\ ls.pc = "walking" /\ ls.todo = { }
    /\ ls' = [ ls EXCEPT !.pc = "idle" ]
    /\ UNCHANGED << fs, files, status, tasks, results, bg, faults, cap, del, dl, call >>

\* --------------------------------------------- calls of static methods
NoCall == [ fn |-> "none" ]

\* The arguments validate_file is called with: a name for every supported
\* extension, names whose extension is in upper or mixed case, names with an
\* unsupported extension, with none, with a leading or a trailing dot only,
\* and with two dots; every size from 0 (file.size or 0) to one above the
\* limit.
ValidateNames ==
    { << "a" >> \o x : x \in SUPPORTED_FORMATS }
        \cup { NameUpper, NameExe, << "d", ".", "T", "x", "t" >>, << "a" >>, DotPng,
               << "a", "." >>, << "a", ".", "e", "x", "e" >> \o DotPng,
               << "a" >> \o DotPng \o << ".", "e", "x", "e" >> }
ValidateSizes == 0..(MAX_FILE_SIZE + 1)

\* The filenames _create_safe_filename is called with: a.png; two names that
\* sanitise to the base of a.png; a name with a directory in front; a stem
\* over the length limit; a stem of invalid characters only, with and
\* without an extension; the empty name.
SafeNames ==
    { NamePng,
      << "a", "#" >> \o DotPng,
      << "a", " " >> \o DotPng,
      << "x", "/", "a" >> \o DotPng,
      << "a", "b", "c", "d", "e", "f" >> \o DotPng,
      << "#" >> \o DotPng,
      << "#" >>,
      NameNone }
\* The names the directory may hold when it is called
SnapNames ==
    { NamePng,
      << "a", "_", "1" >> \o DotPng,
      << "a", "_", "2" >> \o DotPng,
      << "a", "b", "c", "d" >> \o DotPng,
      DotPng,
      << "_", "1" >> \o DotPng,
      << "_", "1" >> }

\* FileProcessor.validate_file(filename, size) is called and returns.
CallValidate ==
    /\ call.fn = "validate_file" /\ ~call.done
    /\ call' = [ call EXCEPT !.done = TRUE, !.out = validate_file(call.filename, call.size) ]
    /\ UNCHANGED << fs, files, status, tasks, results, bg, faults, cap, del, dl, ls >>

\* FileManager._create_safe_filename(filename) is called and returns; fs is
\* the directory it looks at.
CallSafeName ==
    /\ call.fn = "create_safe_filename" /\ ~call.done
    /\ call' = [ call EXCEPT !.done = TRUE, !.out = create_safe_filename(call.filename, DOMAIN fs) ]
    /\ UNCHANGED << fs, files, status, tasks, results, bg, faults, cap, del, dl, ls >>

\* ------------------------------------------------------- specifications
EmptyDir == [ n \in { } |-> Empty ]

InitUploads ==
    /\ fs = EmptyDir
    /\ files = << >>
    /\ status = << >>
    /\ tasks = << >>
    /\ results = << >>
    /\ bg = << >>
    /\ faults = 0
    /\ ls = LsIdle(0)
    /\ call = NoCall

\* The upload directory is empty and no request has been received.
Init ==
    /\ InitUploads
    /\ cap = [ reqs |-> MaxReq, parts |-> MaxFiles, inputs |-> FileInputs ]
    /\ del = [ pc |-> "idle", name |-> NoFile, left |-> 0, answers |-> << >> ]
    /\ dl = [ pc |-> "idle", left |-> 0, snap |-> EmptyDir, todo |-> { }, cur |-> NoFile,
              zip |-> EmptyDir ]

\* The batches a client sends: every sequence of parts up to the limit, and,
\* one part over the limit, the batches that repeat one part.
Batches ==
    UNION { [ 1..n -> FileInputs \cup CaseInputs ] : n \in 0..MAX_FILES_PER_REQUEST }
        \cup { [ i \in 1..(MAX_FILES_PER_REQUEST + 1) |-> f ] : f \in FileInputs }

\* Uploads and their conversions.
Next ==
    \/ \E batch \in Batches : UploadStart(batch)
    \/ \E r \in Reqs : UploadFinish(r)
    \/ \E r \in Reqs : \E k \in 1..Len(tasks[r]) : SaveName(r, k)
    \/ \E r \in Reqs : \E k \in 1..Len(tasks[r]) : SaveOpen(r, k)
    \/ \E r \in Reqs : \E k \in 1..Len(tasks[r]) : SaveOpenFail(r, k)
    \/ \E r \in Reqs : \E k \in 1..Len(tasks[r]) : SaveWrite(r, k)
    \/ \E r \in Reqs : \E k \in 1..Len(tasks[r]) : SaveWriteFail(r, k)
    \/ \E r \in Reqs : \E j \in 1..Len(bg[r]) : ConvOpenFail(r, j)
    \/ \E r \in Reqs : \E j \in 1..Len(bg[r]) : ConvModeFail(r, j)
    \/ \E r \in Reqs : \E j \in 1..Len(bg[r]) : \E keep \in BOOLEAN : ConvSaveFail(r, j, keep)
    \/ \E r \in Reqs : \E j \in 1..Len(bg[r]) : ConvSave(r, j)
    \/ \E r \in Reqs : \E j \in 1..Len(bg[r]) : ConvUnlink(r, j)

Spec == Init /\ [][Next]_vars

\* Successive uploads: a POST /upload is received only when every earlier one
\* has been answered; the conversions they scheduled run in the background.
InitSeq ==
    /\ InitUploads
    /\ cap = [ reqs |-> MaxReqSeq, parts |-> MaxFilesSeq, inputs |-> FileInputs ]
    /\ del = [ pc |-> "idle", name |-> NoFile, left |-> 0, answers |-> << >> ]
    /\ dl = [ pc |-> "idle", left |-> 0, snap |-> EmptyDir, todo |-> { }, cur |-> NoFile,
              zip |-> EmptyDir ]

AllAnswered == \A q \in Reqs : status[q] # "saving"

NextSeq ==
    \/ \E batch \in Batches : AllAnswered /\ UploadStart(batch)
    \/ \E r \in Reqs : UploadFinish(r)
    \/ \E r \in Reqs : \E k \in 1..Len(tasks[r]) : SaveName(r, k)
    \/ \E r \in Reqs : \E k \in 1..Len(tasks[r]) : SaveOpen(r, k)
    \/ \E r \in Reqs : \E k \in 1..Len(tasks[r]) : SaveOpenFail(r, k)
    \/ \E r \in Reqs : \E k \in 1..Len(tasks[r]) : SaveWrite(r, k)
    \/ \E r \in Reqs : \E k \in 1..Len(tasks[r]) : SaveWriteFail(r, k)
    \/ \E r \in Reqs : \E j \in 1..Len(bg[r]) : ConvOpenFail(r, j)
    \/ \E r \in Reqs : \E j \in 1..Len(bg[r]) : ConvModeFail(r, j)
    \/ \E r \in Reqs : \E j \in 1..Len(bg[r]) : \E keep \in BOOLEAN : ConvSaveFail(r, j, keep)
    \/ \E r \in Reqs : \E j \in 1..Len(bg[r]) : ConvSave(r, j)
    \/ \E r \in Reqs : \E j \in 1..Len(bg[r]) : ConvUnlink(r, j)

SpecSeq == InitSeq /\ [][NextSeq]_vars

\* Uploads, conversions and deletes, all concurrent.
InitDel ==
    /\ InitUploads
    /\ cap = [ reqs |-> MaxReqDel, parts |-> MaxFilesDel, inputs |-> FileInputs ]
    /\ del = [ pc |-> "idle", name |-> NoFile, left |-> MaxDel, answers |-> << >> ]
    /\ dl = [ pc |-> "idle", left |-> 0, snap |-> EmptyDir, todo |-> { }, cur |-> NoFile,
              zip |-> EmptyDir ]

NextDel ==
    \/ Next
    \/ \E name \in DeleteNames : DelCheck(name)
    \/ DelUnlink

SpecDel == InitDel /\ [][NextDel]_vars

\* Uploads, conversions, deletes and a download, all concurrent.
InitAll ==
    /\ InitUploads
    /\ cap = [ reqs |-> MaxReqAll, parts |-> MaxFilesAll, inputs |-> FileInputs ]
    /\ del = [ pc |-> "idle", name |-> NoFile, left |-> MaxDel, answers |-> << >> ]
    /\ dl = [ pc |-> "idle", left |-> MaxDl, snap |-> EmptyDir, todo |-> { }, cur |-> NoFile,
              zip |-> EmptyDir ]

NextAll ==
    \/ Next
    \/ \E name \in DeleteNames : DelCheck(name)
    \/ DelUnlink
    \/ DlStart
    \/ DlList
    \/ \E name \in dl.todo : DlCheck(name)
    \/ DlWrite
    \/ DlFinish

SpecAll == InitAll /\ [][NextAll]_vars

\* Uploads and their conversions, of names whose extensions differ in case
\* and in kind.
InitCase ==
    /\ InitUploads
    /\ cap = [ reqs |-> MaxReqCase, parts |-> MaxFilesCase, inputs |-> CaseInputs ]
    /\ del = [ pc |-> "idle", name |-> NoFile, left |-> 0, answers |-> << >> ]
    /\ dl = [ pc |-> "idle", left |-> 0, snap |-> EmptyDir, todo |-> { }, cur |-> NoFile,
              zip |-> EmptyDir ]

SpecCase == InitCase /\ [][Next]_vars

\* Uploads and their conversions; the event loop resumes upload_files once
\* its gather is over.  Nothing is assumed of the thread pool or of the
\* background tasks: a save or a conversion may never take its next step.
InitLive ==
    /\ InitUploads
    /\ cap = [ reqs |-> MaxReqLive, parts |-> MaxFilesLive, inputs |-> LiveInputs ]
    /\ del = [ pc |-> "idle", name |-> NoFile, left |-> 0, answers |-> << >> ]
    /\ dl = [ pc |-> "idle", left |-> 0, snap |-> EmptyDir, todo |-> { }, cur |-> NoFile,
              zip |-> EmptyDir ]

SpecLive ==
    /\ InitLive /\ [][Next]_vars
    /\ \A r \in 1..MaxReqLive : WF_vars(r \in Reqs /\ UploadFinish(r))

\* The names the directory may hold when it is listed: one of every category,
\* an extension in upper case, a supported extension that has no category of
\* its own, an unsupported one, a name without an extension and a name that
\* is nothing but a leading dot and letters.
DirNames ==
    { NamePng, NameUpper,
      << "a" >> \o DotPdf, << "a" >> \o DotMp3, << "a" >> \o DotZip,
      NameExe, << "a" >>, DotPng }

\* No request is in progress and none will be received.
Quiet ==
    /\ files = << >>
    /\ status = << >>
    /\ tasks = << >>
    /\ results = << >>
    /\ bg = << >>
    /\ faults = 0
    /\ cap = [ reqs |-> 0, parts |-> 0, inputs |-> { } ]
    /\ del = [ pc |-> "idle", name |-> NoFile, left |-> 0, answers |-> << >> ]
    /\ dl = [ pc |-> "idle", left |-> 0, snap |-> EmptyDir, todo |-> { }, cur |-> NoFile,
              zip |-> EmptyDir ]

\* One call of validate_file, in an empty directory or in one that holds a.png.
InitValidate ==
    /\ Quiet
    /\ ls = LsIdle(0)
    /\ fs \in { EmptyDir, [ n \in { NamePng } |-> Raw(0, 1) ] }
    /\ call \in [ fn : { "validate_file" }, filename : ValidateNames, size : ValidateSizes,
                   done : { FALSE }, out : { [ ok |-> FALSE, msg |-> "" ] } ]

NextValidate == CallValidate

SpecValidate == InitValidate /\ [][NextValidate]_vars

\* One call of _create_safe_filename, in any directory over SnapNames.
InitSafeName ==
    /\ Quiet
    /\ ls = LsIdle(0)
    /\ fs \in { [ n \in d |-> Raw(0, 1) ] : d \in SUBSET SnapNames }
    /\ call \in [ fn : { "create_safe_filename" }, filename : SafeNames,
                   done : { FALSE }, out : { << >> } ]

NextSafeName == CallSafeName

SpecSafeName == InitSafeName /\ [][NextSafeName]_vars

\* Listings of a directory that holds up to MaxDirFiles of the DirNames.
InitFiles ==
    /\ Quiet
    /\ call = NoCall
    /\ fs \in { [ n \in d |-> Raw(0, 1) ] :
                  d \in { e \in SUBSET DirNames : Cardinality(e) <= MaxDirFiles } }
    /\ ls = LsIdle(MaxLs)

NextFiles ==
    \/ LsList
    \/ \E name \in ls.todo : LsCheck(name)
    \/ LsFinish

SpecFiles == InitFiles /\ [][NextFiles]_vars

\* Uploads, conversions, deletes, a download and a listing, all concurrent,
\* in a directory that holds a.jpg from an earlier run of the service.
InitList ==
    /\ fs = [ n \in { NameJpg } |-> Raw(0, 1) ]
    /\ files = << >>
    /\ status = << >>
    /\ tasks = << >>
    /\ results = << >>
    /\ bg = << >>
    /\ faults = 0
    /\ call = NoCall
    /\ cap = [ reqs |-> MaxReqList, parts |-> MaxFilesList, inputs |-> ListInputs ]
    /\ del = [ pc |-> "idle", name |-> NoFile, left |-> MaxDel, answers |-> << >> ]
    /\ dl = [ pc |-> "idle", left |-> MaxDl, snap |-> EmptyDir, todo |-> { }, cur |-> NoFile,
              zip |-> EmptyDir ]
    /\ ls = LsIdle(MaxLs)

NextList ==
    \/ NextAll
    \/ LsList
    \/ \E name \in ls.todo : LsCheck(name)
    \/ LsFinish

SpecList == InitList /\ [][NextList]_vars


\* ---------------------------------------------------------------- claims
\* The save_file tasks there are, each as << request, position in the gather >>
AllTasks == UNION { { << r, k >> : k \in 1..Len(tasks[r]) } : r \in Reqs }
\* The scheduled conversions, each as << request, position in the queue >>
AllConvs == UNION { { << r, j >> : j \in 1..Len(bg[r]) } : r \in Reqs }
\* The part of its request that task x saves
PartOf(x) == files[x[1]][tasks[x[1]][x[2]].fi]

\* C1: every answered upload request with K parts, K within the limit, returns
\* counters with successful + failed = K, K counting every part of the request.
C1_CountsEveryPart ==
    \A r \in Reqs :
        status[r] = "done" => results[r].successful + results[r].failed = Len(files[r])

\* C2: two saves that both report success never return the same stored path.
C2_StoredPathsDistinct ==
    \A x, y \in AllTasks :
        LET t == tasks[x[1]][x[2]]
            u == tasks[y[1]][y[2]]
        IN  x # y /\ t.pc = "done" /\ t.ok /\ u.pc = "done" /\ u.ok => t.rpath # u.rpath

\* The bytes of part k of request r are in storage, as uploaded or as the
\* JPEG made from them.
Kept(r, k) == \E n \in DOMAIN fs : fs[n].kind \in { "raw", "jpeg" } /\ fs[n].r = r /\ fs[n].k = k

\* C3: three successive upload requests of one part each, the same supported
\* filename every time, all three saved: the three stored names are pairwise
\* distinct and the content of each of the three is still in storage.
C3_ThreeUploadsThreeNames ==
    ( /\ Len(files) = 3
      /\ \A r \in 1..3 : /\ status[r] = "done"
                         /\ Len(files[r]) = 1
                         /\ files[r][1] = files[1][1]
                         /\ results[r].successful = 1 )
    => /\ \A r, q \in 1..3 : r # q => tasks[r][1].rpath # tasks[q][1].rpath
       /\ \A r \in 1..3 : Kept(r, 1)

\* C4: a batch over the limit is rejected as a whole before any processing (no
\* save_file task, no conversion, no result, the directory as it was), and a
\* batch of exactly MAX_FILES_PER_REQUEST parts is not rejected.
C4_OverLimitRejected ==
    /\ [] \A r \in Reqs :
            /\ Len(files[r]) > MAX_FILES_PER_REQUEST =>
                  /\ status[r] = "rejected"
                  /\ tasks[r] = << >> /\ bg[r] = << >> /\ results[r] = NoResult
            /\ Len(files[r]) <= MAX_FILES_PER_REQUEST => status[r] # "rejected"
    /\ [][ Len(files') > Len(files) => fs' = fs ]_vars

C4_Witness ==
    \E r, q \in Reqs :
        /\ Len(files[r]) = MAX_FILES_PER_REQUEST + 1 /\ status[r] = "rejected"
        /\ Len(files[q]) = MAX_FILES_PER_REQUEST /\ status[q] = "done"
        /\ results[q].successful = MAX_FILES_PER_REQUEST

\* The parts of request r whose save failed, in input order
FailedParts(r) ==
    SelectSeq([ k \in 1..Len(tasks[r]) |-> k ], LAMBDA k : ~tasks[r][k].ok)

\* C5: the errors list of an answered request has one entry per failed save,
\* in input order, and each entry names the part whose save failed.
C5_ErrorsNameTheFailedPart ==
    \A r \in Reqs :
        status[r] = "done" =>
            /\ Len(results[r].errors) = Len(FailedParts(r))
            /\ \A n \in 1..Len(FailedParts(r)) :
                  LET t == tasks[r][FailedParts(r)[n]]
                  IN  /\ results[r].errors[n].file = files[r][t.fi].filename
                      /\ results[r].errors[n].msg = t.msg


\* The results of request r with a given outcome, counted
Count(r, ok) == Cardinality({ k \in 1..Len(tasks[r]) : tasks[r][k].ok = ok })

\* C6: a save whose write fails with an I/O error returns (False, message,
\* None), the request still returns its counters, and whether the open or the
\* write of one save fails or succeeds makes no difference to what is stored
\* under the path of any other saved part of the batch.
C6_FailureLeavesOthersAlike ==
    /\ \A x \in AllTasks :
          LET t == tasks[x[1]][x[2]]
          IN  t.pc = "done" /\ t.msg = MsgIO => ~t.ok /\ t.rpath = NoPath
    /\ \A r \in Reqs :
          status[r] = "done" =>
              /\ results[r].successful = Count(r, TRUE)
              /\ results[r].failed = Count(r, FALSE)
    /\ \A r \in Reqs : \A k, j \in 1..Len(tasks[r]) :
          LET t == tasks[r][k]
              u == tasks[r][j]
          IN  k # j /\ u.pc = "done" /\ u.ok /\ u.rpath \in DOMAIN fs =>
                  /\ t.pc = "opening" => AfterOpen(t)[u.rpath] = fs[u.rpath]
                  /\ t.pc = "writing" => AfterWrite(r, t)[u.rpath] = fs[u.rpath]

\* The validator's rule as the specification states it
Unsupported(f) == Lower(PathSuffix(f.filename)) \notin SUPPORTED_FORMATS
Oversized(f) == f.size > MAX_FILE_SIZE

\* C7: the step of save_file on a part the validator rejects (an unsupported
\* extension at any size, or a size above MAX_FILE_SIZE) ends the save with
\* failure and the validator's reason, and leaves the directory as it was.
C7_RejectedFileNotWritten ==
    [][ \A x \in AllTasks :
          LET t == tasks[x[1]][x[2]]
              f == PartOf(x)
          IN  (Unsupported(f) \/ Oversized(f)) /\ tasks'[x[1]][x[2]] # t =>
                  /\ fs' = fs
                  /\ tasks'[x[1]][x[2]].pc = "done"
                  /\ ~tasks'[x[1]][x[2]].ok
                  /\ tasks'[x[1]][x[2]].rpath = NoPath
                  /\ tasks'[x[1]][x[2]].name = NoPath
                  /\ tasks'[x[1]][x[2]].msg = (IF Oversized(f) THEN MsgSize ELSE MsgType) ]_vars

C7_Witness ==
    /\ \E x \in AllTasks :
          /\ PartOf(x).filename = NameExe /\ ~Oversized(PartOf(x))
          /\ tasks[x[1]][x[2]].pc = "done" /\ tasks[x[1]][x[2]].msg = MsgType
    /\ \E x \in AllTasks :
          /\ PartOf(x).filename = NamePng /\ Oversized(PartOf(x))
          /\ tasks[x[1]][x[2]].pc = "done" /\ tasks[x[1]][x[2]].msg = MsgSize

\* C8 as stated: after a conversion has failed, its source is in storage
\* under its name, holding uploaded bytes.
C8_SourceStillPresent ==
    \A x \in AllConvs :
        LET c == bg[x[1]][x[2]]
        IN  c.pc = "done" /\ c.out = "failed" =>
                c.path \in DOMAIN fs /\ fs[c.path].kind = "raw"

\* C8 as amended: the step in which a conversion fails leaves its source as
\* it was (there with the same content, or not there), and changes neither
\* the answer nor the counters of any upload request.
C8_FailedConversionKeepsSource ==
    [][ \A x \in AllConvs :
          LET c == bg[x[1]][x[2]]
          IN  c.out # "failed" /\ bg'[x[1]][x[2]].out = "failed" =>
                  /\ (c.path \in DOMAIN fs) = (c.path \in DOMAIN fs')
                  /\ c.path \in DOMAIN fs => fs'[c.path] = fs[c.path]
                  /\ status' = status /\ results' = results ]_vars

C8_Witness ==
    \E x \in AllConvs :
        LET c == bg[x[1]][x[2]]
        IN  /\ c.pc = "done" /\ c.out = "failed"
            /\ c.path \in DOMAIN fs
            /\ fs[c.path] = Raw(x[1], tasks[x[1]][c.src].fi)
            /\ TargetPath(c.path) \in DOMAIN fs

\* C9: every scheduled conversion, started or not, is for the path that a
\* finished, successful save_file call of its request returned.
C9_ConversionAfterSave ==
    \A x \in AllConvs :
        LET c == bg[x[1]][x[2]]
            t == tasks[x[1]][c.src]
        IN  t.pc = "done" /\ t.ok /\ c.path # NoPath /\ t.rpath = c.path

C9_Witness ==
    \E x \in AllConvs :
        /\ bg[x[1]][x[2]].pc = "saved"
        /\ \E y \in AllTasks : tasks[y[1]][y[2]].pc = "writing"

\* C10: the archive a download returns holds exactly the files that were in
\* storage when the request was received, each with the content it had then.
C10_ArchiveIsSnapshot == dl.pc = "done" => dl.zip = dl.snap

\* The names DELETE has answered with success
Deleted == { del.answers[i].name : i \in { j \in 1..Len(del.answers) : del.answers[j].code = 200 } }
\* The names of a listing
Listed(out) == UNION { SeqRange(out[c]) : c \in DOMAIN out }

\* C11: the step in which DELETE succeeds for a name removes that name from
\* storage and leaves every other stored file as it was; and while a name that
\* DELETE removed has not been created again, no listing and no archive takes
\* it up.
C11_DeletedNameOmitted ==
    [][ /\ \A n \in Deleted \ DOMAIN fs :
              /\ n \in Listed(ls'.out) => n \in Listed(ls.out)
              /\ n \in DOMAIN dl'.zip => n \in DOMAIN dl.zip
        /\ Len(del'.answers) > Len(del.answers) /\ del'.answers[Len(del'.answers)].code = 200 =>
              LET n == del'.answers[Len(del'.answers)].name
              IN  /\ n \in DOMAIN fs
                  /\ DOMAIN fs' = DOMAIN fs \ { n }
                  /\ \A m \in DOMAIN fs' : fs'[m] = fs[m] ]_vars

C11_Witness ==
    \E n \in Deleted \ DOMAIN fs :
        /\ ls.pc = "walking" /\ Listed(ls.out) # { } /\ ls.todo = { }
        /\ dl.pc = "done" /\ dl.zip # EmptyDir /\ n \notin DOMAIN dl.zip

\* C12: a DELETE whose name is not in storage at the moment of its answer is
\* answered 404 and leaves storage as it was, and 500 is answered only for a
\* name that is in storage.
C12_MissingNameIsNotFound ==
    [][ Len(del'.answers) > Len(del.answers) =>
          LET a == del'.answers[Len(del'.answers)]
          IN  /\ a.name \notin DOMAIN fs => a.code = 404 /\ fs' = fs
              /\ a.code = 500 => a.name \in DOMAIN fs ]_vars

\* C13: the step in which a save that has opened its file ends in failure
\* leaves no file under the name it opened, and leaves every other file of
\* storage as it was.
C13_NoPartialFileLeft ==
    [][ \A x \in AllTasks :
          LET t == tasks[x[1]][x[2]]
              u == tasks'[x[1]][x[2]]
          IN  t.pc = "writing" /\ u.pc = "done" /\ ~u.ok =>
                  /\ t.live => t.name \notin DOMAIN fs'
                  /\ \A n \in DOMAIN fs \ { t.name } : n \in DOMAIN fs' /\ fs'[n] = fs[n] ]_vars

\* C14: validate_file accepts exactly the sizes up to MAX_FILE_SIZE with a
\* supported lower-cased extension; an oversized file gets the size reason
\* whatever its extension, an unsupported one within the size limit the type
\* reason; a rejection has a non-empty reason; the call leaves storage as it
\* was.
C14_ValidatorRule ==
    /\ [] ( call.fn = "validate_file" /\ call.done =>
               LET big == call.size > MAX_FILE_SIZE
                   sup == Lower(PathSuffix(call.filename)) \in SUPPORTED_FORMATS
               IN  /\ call.out.ok = (~big /\ sup)
                   /\ big => call.out.msg = MsgSize
                   /\ ~big /\ ~sup => call.out.msg = MsgType
                   /\ ~call.out.ok => call.out.msg # "" )
    /\ [][ call' # call => fs' = fs ]_vars

C14_Witness ==
    /\ call.fn = "validate_file" /\ call.done
    /\ call.size > MAX_FILE_SIZE /\ call.filename = NameExe
    /\ call.out = [ ok |-> FALSE, msg |-> MsgSize ]
    /\ fs # EmptyDir

\* The n-th name of the sequence base+ext, base_1+ext, base_2+ext, ...
Candidate(filename, n) ==
    IF n = 0 THEN SafeBase(filename) \o PathSuffix(filename)
    ELSE SafeBase(filename) \o << "_" >> \o Decimal(n) \o PathSuffix(filename)

\* The first name of the sequence that is not in taken; one of the first
\* Cardinality(taken) + 1 names is not, the names being pairwise distinct.
FirstNotIn(filename, taken) ==
    Candidate(filename,
              CHOOSE n \in 0..Cardinality(taken) :
                  /\ Candidate(filename, n) \notin taken
                  /\ \A m \in 0..(n - 1) : Candidate(filename, m) \in taken)

\* C15 as stated: the call returns the first name of the sequence that is not
\* in the directory, and the name it returns is not in the directory.
C15_FirstAbsentName ==
    call.fn = "create_safe_filename" /\ call.done =>
        /\ call.out = FirstNotIn(call.filename, DOMAIN fs)
        /\ call.out \notin DOMAIN fs

\* C15 as amended: the call returns the first name of the sequence that is
\* neither in the directory nor the empty name, the name it returns is not in
\* the directory, and the call leaves the directory as it was.
C15_FirstFreeName ==
    /\ [] ( call.fn = "create_safe_filename" /\ call.done =>
               /\ call.out = FirstNotIn(call.filename, DOMAIN fs \cup { << >> })
               /\ call.out \notin DOMAIN fs
               /\ call.out # << >> )
    /\ [][ call' # call => fs' = fs ]_vars

C15_Witness ==
    /\ call.fn = "create_safe_filename" /\ call.done
    /\ call.filename = << "a", "#" >> \o DotPng
    /\ { NamePng, << "a", "_", "1" >> \o DotPng } \subseteq DOMAIN fs
    /\ call.out = << "a", "_", "2" >> \o DotPng

\* The conversions request r has scheduled for the result of its k-th save
ConvsOf(r, k) == { j \in 1..Len(bg[r]) : bg[r][j].src = k }

\* C16: a request that is not answered has scheduled nothing; an answered one
\* has scheduled exactly one conversion for every save that succeeded with a
\* stored path whose lower-cased extension is .png, and none for any other.
C16_ScheduledIffSavedPng ==
    \A r \in Reqs :
        /\ status[r] # "done" => bg[r] = << >>
        /\ status[r] = "done" =>
              \A k \in 1..Len(tasks[r]) :
                  LET t == tasks[r][k]
                  IN  Cardinality(ConvsOf(r, k)) =
                          IF t.ok /\ Lower(PathSuffix(t.rpath)) = DotPng THEN 1 ELSE 0

C16_Witness ==
    \E r \in Reqs :
        /\ status[r] = "done"
        /\ \E k \in 1..Len(tasks[r]) :
              /\ tasks[r][k].ok /\ tasks[r][k].rpath = NameUpper
              /\ Cardinality(ConvsOf(r, k)) = 1
        /\ \E k \in 1..Len(tasks[r]) :
              /\ ~tasks[r][k].ok /\ tasks[r][k].name = NamePng
              /\ ConvsOf(r, k) = { }

\* C17: a file that a successful save created, while it is in storage under
\* the name the save returned and with the content the save wrote, is left
\* there with that content by every step other than the success of a DELETE
\* for that name.
C17_StoredFilePersists ==
    [][ \A x \in AllTasks :
          LET t == tasks[x[1]][x[2]]
          IN  /\ t.pc = "done" /\ t.ok
              /\ t.rpath \in DOMAIN fs /\ fs[t.rpath] = Raw(x[1], t.fi)
              => \/ t.rpath \in DOMAIN fs' /\ fs'[t.rpath] = fs[t.rpath]
                 \/ /\ Len(del'.answers) > Len(del.answers)
                    /\ del'.answers[Len(del'.answers)] = [ name |-> t.rpath, code |-> 200 ] ]_vars

\* C18: an accepted upload request all of whose saves have finished is
\* eventually answered, whatever its own and the other requests' conversions
\* do or fail to do.
C18_UploadReturns ==
    \A r \in 1..MaxReqLive :
        (r \in Reqs /\ status[r] = "saving" /\ GatherDone(r)) ~> (r \in Reqs /\ status[r] = "done")

C18_Witness ==
    \E r, q \in Reqs :
        /\ r # q
        /\ status[r] = "done" /\ bg[r] # << >> /\ bg[r][1].pc = "saved"
        /\ status[q] = "done" /\ bg[q] # << >> /\ bg[q][1].pc = "queued"

\* The category the specification gives a file name
Expected(name) ==
    LET e == Lower(PathSuffix(name))
    IN  CASE e \in { DotPng, DotJpg, DotJpeg, DotGif, DotBmp, DotTiff, DotWebp } -> "images"
          [] e \in { DotPdf, DotTxt, DotDocx, DotXlsx } -> "documents"
          [] e \in { DotMp4, DotMp3 } -> "media"
          [] OTHER -> "other"

\* How often name n occurs in the list q
Occurs(q, n) == Cardinality({ i \in 1..Len(q) : q[i] = n })

\* C19: the answer of GET /files has the four categories; every file of
\* storage is once in the list of the category of its lower-cased extension
\* and in no other list; and no other name is in any list.
C19_ListingByCategory ==
    ls.pc = "idle" /\ ls.left < MaxLs =>
        /\ DOMAIN ls.out = { "images", "documents", "media", "other" }
        /\ \A n \in DOMAIN fs : \A c \in DOMAIN ls.out :
              Occurs(ls.out[c], n) = IF c = Expected(n) THEN 1 ELSE 0
        /\ Listed(ls.out) \subseteq DOMAIN fs

C19_Witness ==
    /\ ls.pc = "idle" /\ ls.left < MaxLs
    /\ ls.out.images = << NameUpper >>
    /\ ls.out.documents = << << "a" >> \o DotPdf >>
    /\ ls.out.media = << << "a" >> \o DotMp3 >>
    /\ ls.out.other = << << "a" >> \o DotZip >>

\* C20: a step of a conversion leaves every file of storage other than the
\* conversion's source as it was: it creates files, and it neither removes
\* nor rewrites one that is there, the X.jpg of its source X.png included.
C20_ConversionKeepsOtherFiles ==
    [][ \A x \in AllConvs :
          LET c == bg[x[1]][x[2]]
          IN  bg'[x[1]][x[2]] # c =>
                  \A n \in DOMAIN fs \ { c.path } : n \in DOMAIN fs' /\ fs'[n] = fs[n] ]_vars

\* C21: a download never ends in an error: the archive builder never fails on
\* a file that the directory walk listed and that is gone when it is read.
C21_DownloadNeverFails == dl.pc # "failed"

=============================================================================
